---- MODULE Spec2Model ----
(***************************************************************************)
(* Monte Carlo credit-loss simulation (run_simulation.py): the sweep of    *)
(* main() over the horizon years, and for every run the producer process   *)
(* simulate_losses_monte_carlo and the consumer process data_consumer,     *)
(* connected by one bounded multiprocessing queue and writing one sqlite   *)
(* store per run.                                                          *)
(*                                                                         *)
(* Real numbers are kept as fixed-point integers: Y, Z in units of 1,      *)
(* rho1/rho2 in tenths, X and the thresholds ('ppf') in tenths.  A loss    *)
(* ratio is the pair <<numerator, denominator>>.                           *)
(***************************************************************************)
EXTENDS Integers, Sequences, FiniteSets, TLC

(* ------------------------------ bounds -------------------------------- *)
\* largest ECONOMIC_SCENARIOS explored
MaxScen == 3
\* largest BATCH_SIZE explored
MaxBatch == 2
\* largest MAX_QUEUE_SIZE explored
MaxCap == 2
\* PORTFOLIO_SIZE explored
MaxPortfolio == 2
\* storage faults injected per execution
MaxFaults == 1

(* ------------------------- program constants -------------------------- *)
\* RATES_OF_INTEREST, cut down to two rating categories
RATES_OF_INTEREST == <<"A", "BBB">>

\* YEARS_OF_INTEREST, cut down to two horizon years
YEARS_OF_INTEREST == <<1, 3>>

\* ASSET_CORRELATION of the successive main() calls, in percent
ASSET_CORRELATIONS == <<16, 24>>

\* np.random.seed(seed=25)
SEED == 25

Range(s) == {s[i] : i \in DOMAIN s}

Rates == Range(RATES_OF_INTEREST)

\* insert_to_table_base_columns without S_ID and Y: one column per rate
insert_columns == Rates

\* one run per (main() call, year): the runs in the order main executes them
NumRuns == Len(ASSET_CORRELATIONS) * Len(YEARS_OF_INTEREST)

RunYear(r) == YEARS_OF_INTEREST[((r - 1) % Len(YEARS_OF_INTEREST)) + 1]

RunCorrelation(r) == ASSET_CORRELATIONS[((r - 1) \div Len(YEARS_OF_INTEREST)) + 1]

(* --------------------------- the random stream ------------------------ *)
\* The generator is a cycle of standard-normal draws; the seed fixes the
\* position the stream starts at.
Period == 7

Draws == <<-1, 1, 0, 0, 0, 1, -1>>

np_random_seed(seed) == seed % Period

\* the value of a draw in generator state s, and the state after it
standard_normal(s) == Draws[s + 1]

\* mutant: every call consumes two values of the stream
rng_skip(s) == (s + 2) % Period

rng_next(s) == (s + 1) % Period

(* ------------------------------ arithmetic ---------------------------- *)
\* the square roots of the percentages, in tenths (rounded down)
SqrtTenths ==
    [c \in 0..100 |-> CHOOSE r \in 0..10 : r * r <= c /\ (r + 1) * (r + 1) > c]

\* np.sqrt of a percentage, in tenths
np_sqrt(c) == SqrtTenths[c]

\* norm.ppf of a probability given in percent, in tenths
norm_ppf(pct) ==
    CASE pct <= 2  -> -20
      [] pct <= 16 -> -10
      [] pct <= 31 -> -5
      [] pct <= 50 -> 0
      [] pct <= 69 -> 5
      [] pct <= 84 -> 10
      [] OTHER     -> 20

(* --------------------------- threshold source ------------------------- *)
\* CREDIT_RATING_FILEPATH: a list of entries, each a 'Year' and the
\* cumulative default probabilities (percent) of the rates it holds.
Entry(y, rates) == [Year |-> y, rates |-> rates]

RatingFiles ==
    { << Entry(1, [k \in Rates |-> IF k = "A" THEN 31 ELSE 50]),
         Entry(3, [k \in Rates |-> IF k = "A" THEN 50 ELSE 69]) >>,
      << Entry(1, [k \in Rates |-> IF k = "A" THEN 69 ELSE 31]),
         Entry(3, [k \in Rates |-> 50]) >>,
      << Entry(1, [k \in Rates |-> IF k = "A" THEN 16 ELSE 50]) >>,
      << Entry(3, [k \in {"A"} |-> 50]),
         Entry(1, [k \in Rates |-> IF k = "A" THEN 50 ELSE 84]) >>,
      << Entry(5, [k \in Rates |-> 50]) >> }

HasYear(file, y) == \E i \in DOMAIN file : file[i].Year = y

\* the first entry of the file with the requested year (line 133, break)
YearEntry(file, y) ==
    file[CHOOSE i \in DOMAIN file :
            /\ file[i].Year = y
            /\ \A j \in 1..(i - 1) : file[j].Year # y]

\* rating_list[k] raises KeyError for a rate the entry lacks
RaisesKeyError(file, y) ==
    HasYear(file, y) /\ \E k \in Rates : k \notin DOMAIN YearEntry(file, y).rates

\* parsed_ratings_list as built by lines 130-138
LoadThresholds(file, y) ==
    IF HasYear(file, y)
    THEN [k \in Rates |->
            [pct |-> YearEntry(file, y).rates[k],
             ppf |-> norm_ppf(YearEntry(file, y).rates[k]),
             default_count |-> 0]]
    ELSE << >>

(* -------------------------------- queue ------------------------------- *)
None == [none |-> TRUE, rows |-> << >>]

Batch(rows) == [none |-> FALSE, rows |-> rows]

\* mutant: put never blocks
CanPutAlways(q, maxsize) == TRUE

\* mutant: put blocks one item early
CanPutOffByOne(q, maxsize) == Len(q) + 1 < maxsize

\* mutant: the queue takes twice the items it was created for
CanPutDoubled(q, maxsize) == Len(q) < 2 * maxsize

\* queue.put blocks while the queue holds maxsize items
CanPut(q, maxsize) == Len(q) < maxsize

\* mutant: the newest item is delivered first
PutInFront(q, item) == <<item>> \o q

\* queue.put(item): first in, first out
Put(q, item) == Append(q, item)

VARIABLES
    \* configuration, fixed for the execution
    ECONOMIC_SCENARIOS, PORTFOLIO_SIZE, BATCH_SIZE, MAX_QUEUE_SIZE,
    whole_rating_list,
    \* main
    m_pc, run,
    \* the queue of the current run
    queue,
    \* producer process
    p_pc, parsed_ratings_list, data_to_que, db_updated_x_times, sim_id,
    scen, Y, obligor, rng, rho1, rho2,
    \* consumer process and its connection
    c_pc, data, in_transaction, txn_open, pending,
    \* the stores, one per run
    db,
    \* storage faults the environment has raised so far
    faults,
    \* history
    hist

config == <<ECONOMIC_SCENARIOS, PORTFOLIO_SIZE, BATCH_SIZE, MAX_QUEUE_SIZE,
            whole_rating_list>>

mainv == <<m_pc, run>>

prod == <<p_pc, parsed_ratings_list, data_to_que, db_updated_x_times, sim_id,
          scen, Y, obligor, rng, rho1, rho2>>

cons == <<c_pc, data, in_transaction, txn_open, pending>>

vars == <<config, mainv, queue, prod, cons, db, faults, hist>>


(* ------------------------------- history ------------------------------ *)
\* hist records what the run did: it is read by no action of the program.
\*   puts     sizes of the items put on the queue in this run (-1: None)
\*   gets     number of queue.get calls that returned in this run
\*   draws    number of standard_normal() calls of this run's producer
\*   sentinel the consumer of this run has dequeued None
\*   failed   runs in which an error was raised (KeyError, sqlite3.Error)
\*   started  runs whose processes main has started
\*   err      the failing batch, how many of its rows were written and the
\*            store at the time of the error
NoErr == [seen |-> FALSE, batch |-> << >>, written |-> 0, store |-> << >>]

RunHist == [puts |-> << >>, gets |-> 0, draws |-> 0, sentinel |-> FALSE,
            err |-> NoErr]

HistInit == [run |-> RunHist, failed |-> {}, started |-> {}]

(* -------------------------------- Init -------------------------------- *)
Init ==
    /\ ECONOMIC_SCENARIOS \in 0..MaxScen
    /\ PORTFOLIO_SIZE = MaxPortfolio
    /\ BATCH_SIZE \in 1..MaxBatch
    /\ MAX_QUEUE_SIZE \in 1..MaxCap
    /\ whole_rating_list \in RatingFiles
    /\ m_pc = "create_database"
    /\ run = 1
    /\ queue = << >>
    /\ p_pc = "idle"
    /\ parsed_ratings_list = << >>
    /\ data_to_que = << >>
    /\ db_updated_x_times = 0
    /\ sim_id = 1
    /\ scen = 0
    /\ Y = 0
    /\ obligor = 0
    /\ rng = 0
    /\ rho1 = 0
    /\ rho2 = 0
    /\ c_pc = "idle"
    /\ data = None
    /\ in_transaction = FALSE
    /\ txn_open = FALSE
    /\ pending = << >>
    /\ db = [r \in 1..NumRuns |-> << >>]
    /\ faults = 0
    /\ hist = HistInit

(* ------------------------------ producer ------------------------------ *)
\* lines 127-149: load the thresholds, initialise the locals, seed
ProducerLoad ==
    /\ p_pc = "load"
    /\ IF RaisesKeyError(whole_rating_list, RunYear(run))
       THEN /\ p_pc' = "crashed"
            /\ hist' = [hist EXCEPT !.failed = @ \cup {run}]
            /\ UNCHANGED <<parsed_ratings_list, data_to_que,
                           db_updated_x_times, sim_id, scen, rng, rho1, rho2>>
       ELSE /\ parsed_ratings_list' =
                  LoadThresholds(whole_rating_list, RunYear(run))
            /\ data_to_que' = << >>
            /\ db_updated_x_times' = 0
            /\ sim_id' = 1
            /\ rng' = np_random_seed(SEED)
            /\ rho1' = np_sqrt(RunCorrelation(run))
            /\ rho2' = np_sqrt(100 - RunCorrelation(run))
            /\ scen' = 0
            /\ p_pc' = "loop"
            /\ UNCHANGED hist
    /\ UNCHANGED <<config, mainv, queue, Y, obligor, cons, db, faults>>

\* lines 151-152: the next scenario draws Y, or the loop is over
ProducerScenario ==
    /\ p_pc = "loop"
    /\ IF scen < ECONOMIC_SCENARIOS
       THEN /\ Y' = standard_normal(rng)
            /\ rng' = rng_next(rng)
            /\ obligor' = 0
            /\ p_pc' = "obligor"
            /\ hist' = [hist EXCEPT !.run.draws = @ + 1]
       ELSE /\ p_pc' = "tail"
            /\ UNCHANGED <<Y, rng, obligor, hist>>
    /\ UNCHANGED <<config, mainv, queue, parsed_ratings_list, data_to_que,
                   db_updated_x_times, sim_id, scen, rho1, rho2, cons, db, faults>>

\* line 155
AssetValue(y, z, r1, r2) == y * r1 + z * r2

\* mutant: X equal to the threshold counts as a default
CountDefaultsInclusive(prl, X) ==
    [k \in DOMAIN prl |->
        [prl[k] EXCEPT !.default_count =
            IF X <= prl[k].ppf THEN @ + 1 ELSE @]]

\* mutant: an X above the threshold counts as a default
CountDefaultsAbove(prl, X) ==
    [k \in DOMAIN prl |->
        [prl[k] EXCEPT !.default_count =
            IF X > prl[k].ppf THEN @ + 1 ELSE @]]

\* lines 157-160: one X tested against every rate
CountDefaults(prl, X) ==
    [k \in DOMAIN prl |->
        [prl[k] EXCEPT !.default_count =
            IF X < prl[k].ppf THEN @ + 1 ELSE @]]

\* lines 153-160: one obligor
ProducerObligor ==
    /\ p_pc = "obligor"
    /\ obligor < PORTFOLIO_SIZE
    /\ LET Z == standard_normal(rng)
           X == AssetValue(Y, Z, rho1, rho2)
       IN  parsed_ratings_list' = CountDefaults(parsed_ratings_list, X)
    /\ rng' = rng_next(rng)
    /\ obligor' = obligor + 1
    /\ hist' = [hist EXCEPT !.run.draws = @ + 1]
    /\ UNCHANGED <<config, mainv, queue, p_pc, data_to_que,
                   db_updated_x_times, sim_id, scen, Y, rho1, rho2, cons, db, faults>>

\* lines 167-170
LossRatio(default_count, size) ==
    IF default_count = 0 THEN <<0, 1>> ELSE <<default_count, size>>

\* mutant: the ids start at 0
ScenarioRecordFromZero(id, y, prl, size) ==
    [S_ID |-> id - 1, Y |-> y,
     L |-> [k \in DOMAIN prl |-> LossRatio(prl[k].default_count, size)]]

\* lines 162-172: the Scenario Record
ScenarioRecord(id, y, prl, size) ==
    [S_ID |-> id, Y |-> y,
     L |-> [k \in DOMAIN prl |-> LossRatio(prl[k].default_count, size)]]

\* mutant: the counters are not reset after a record
ResetCountsSkipped(prl) == prl

\* mutant: the reset clears the thresholds with the counters
ResetCountsAndThresholds(prl) ==
    [k \in DOMAIN prl |-> [prl[k] EXCEPT !.default_count = 0, !.ppf = 0]]

\* line 173
ResetCounts(prl) ==
    [k \in DOMAIN prl |-> [prl[k] EXCEPT !.default_count = 0]]

\* mutant: the batch is put two records late
BatchDueLate(id, size, updated) == id >= size * (updated + 1) + 2

\* line 178
BatchDue(id, size, updated) == id >= size * (updated + 1)

\* lines 162-178: build the record, append it, decide whether to put
ProducerRecord ==
    /\ p_pc = "obligor"
    /\ obligor = PORTFOLIO_SIZE
    /\ data_to_que' = Append(data_to_que,
          ScenarioRecord(sim_id, Y, parsed_ratings_list, PORTFOLIO_SIZE))
    /\ parsed_ratings_list' = ResetCounts(parsed_ratings_list)
    /\ sim_id' = sim_id + 1
    /\ scen' = scen + 1
    /\ p_pc' = IF BatchDue(sim_id + 1, BATCH_SIZE, db_updated_x_times)
               THEN "put_batch" ELSE "loop"
    /\ UNCHANGED <<config, mainv, queue, db_updated_x_times, Y, obligor, rng,
                   rho1, rho2, cons, db, faults, hist>>

\* lines 179-181
ProducerPutBatch ==
    /\ p_pc = "put_batch"
    /\ CanPut(queue, MAX_QUEUE_SIZE)
    /\ queue' = Put(queue, Batch(data_to_que))
    /\ data_to_que' = << >>
    /\ db_updated_x_times' = db_updated_x_times + 1
    /\ p_pc' = "loop"
    /\ hist' = [hist EXCEPT !.run.puts = Append(@, Len(data_to_que))]
    /\ UNCHANGED <<config, mainv, parsed_ratings_list, sim_id, scen, Y,
                   obligor, rng, rho1, rho2, cons, db, faults>>

\* mutant: the trailing batch is never put
TrailingNever(d) == FALSE

\* mutant: the trailing batch is put even when it is empty
TrailingAlways(d) == TRUE

\* line 183
TrailingDue(d) == Len(d) > 0

\* lines 183-184: the trailing batch
ProducerTail ==
    /\ p_pc = "tail"
    /\ IF TrailingDue(data_to_que)
       THEN /\ CanPut(queue, MAX_QUEUE_SIZE)
            /\ queue' = Put(queue, Batch(data_to_que))
            /\ hist' = [hist EXCEPT !.run.puts = Append(@, Len(data_to_que))]
       ELSE UNCHANGED <<queue, hist>>
    /\ p_pc' = "put_none"
    /\ UNCHANGED <<config, mainv, parsed_ratings_list, data_to_que,
                   db_updated_x_times, sim_id, scen, Y, obligor, rng, rho1,
                   rho2, cons, db, faults>>

\* line 185: the sentinel
ProducerPutNone ==
    /\ p_pc = "put_none"
    /\ CanPut(queue, MAX_QUEUE_SIZE)
    /\ queue' = Put(queue, None)
    /\ p_pc' = "done"
    /\ hist' = [hist EXCEPT !.run.puts = Append(@, -1)]
    /\ UNCHANGED <<config, mainv, parsed_ratings_list, data_to_que,
                   db_updated_x_times, sim_id, scen, Y, obligor, rng, rho1,
                   rho2, cons, db, faults>>

Producer ==
    \/ ProducerLoad
    \/ ProducerScenario
    \/ ProducerObligor
    \/ ProducerRecord
    \/ ProducerPutBatch
    \/ ProducerTail
    \/ ProducerPutNone


(* ------------------------------ consumer ------------------------------ *)
\* the connection's view of the store: the open transaction and its rows
Conn(open, rows) == [txn_open |-> open, pending |-> rows]

\* cursor.execute('BEGIN TRANSACTION')
Begin(conn) == Conn(TRUE, conn.pending)

\* mutant: the ROLLBACK is left out
RollbackSkipped(conn) == conn

\* cursor.execute('ROLLBACK') within an open transaction
Rollback(conn) == Conn(FALSE, << >>)

\* conn.commit(): the rows of the open transaction reach the store;
\* without an open transaction it does nothing
CommitStore(conn, store) ==
    IF conn.txn_open THEN store \o conn.pending ELSE store

CommitConn(conn) == IF conn.txn_open THEN Conn(FALSE, << >>) ELSE conn

\* conn.close(): what was not committed is lost
Close(conn) == Conn(FALSE, << >>)

Ids(rows) == {rows[i].S_ID : i \in DOMAIN rows}

\* the insert statement binds :S_ID, :Y and one :<rate>_L_RATIO per column
\* (lines 68-78); S_ID is the PRIMARY KEY (line 42)
RowFails(row, present) ==
    \/ DOMAIN row.L # insert_columns
    \/ row.S_ID \in present

\* the number of rows of the batch that executemany inserts before the
\* first row that fails (all of them when none fails)
Insertable(rows, present) ==
    IF \E i \in DOMAIN rows :
          RowFails(rows[i], present \cup Ids(SubSeq(rows, 1, i - 1)))
    THEN (CHOOSE i \in DOMAIN rows :
            /\ RowFails(rows[i], present \cup Ids(SubSeq(rows, 1, i - 1)))
            /\ \A j \in 1..(i - 1) :
                 ~RowFails(rows[j], present \cup Ids(SubSeq(rows, 1, j - 1)))) - 1
    ELSE Len(rows)

\* the history of a storage error of the current run
Failed(h, r, batch, written, store) ==
    [h EXCEPT !.failed = @ \cup {r},
              !.run.err = [seen |-> TRUE, batch |-> batch,
                           written |-> written, store |-> store]]

\* mutant: None is handled like a batch
AfterGetNoBreak(item) == "write"

\* lines 103-104: None breaks out of the loop
AfterGet(item) == IF item.none THEN "finally" ELSE "write"

\* lines 102-104
ConsumerGet ==
    /\ c_pc = "get"
    /\ Len(queue) > 0
    /\ data' = Head(queue)
    /\ queue' = Tail(queue)
    /\ c_pc' = AfterGet(Head(queue))
    /\ hist' = [hist EXCEPT !.run.gets = @ + 1,
                            !.run.sentinel = Head(queue).none]
    /\ UNCHANGED <<config, mainv, prod, in_transaction, txn_open, pending,
                   db, faults>>

\* lines 106-113: one batch is written in one transaction.  The three
\* statements touch only the consumer's own connection, so they are one
\* step; an error leaves the connection as the failing statement left it.
ConsumerWrite ==
    /\ c_pc = "write"
    /\ LET began == IF in_transaction THEN Conn(txn_open, pending)
                    ELSE Begin(Conn(txn_open, pending))
           n == Insertable(data.rows, Ids(db[run]) \cup Ids(began.pending))
           written == Conn(began.txn_open, began.pending \o data.rows)
       IN  \/ \* BEGIN, executemany and commit succeed
              /\ n = Len(data.rows)
              /\ db' = [db EXCEPT ![run] = CommitStore(written, @)]
              /\ txn_open' = CommitConn(written).txn_open
              /\ pending' = CommitConn(written).pending
              /\ in_transaction' = FALSE
              /\ c_pc' = "get"
              /\ UNCHANGED <<faults, hist>>
           \/ \* line 107: sqlite3.Error raised by BEGIN
              /\ ~in_transaction
              /\ faults < MaxFaults
              /\ faults' = faults + 1
              /\ c_pc' = "except"
              /\ hist' = Failed(hist, run, data.rows, 0, db[run])
              /\ UNCHANGED <<in_transaction, txn_open, pending, db>>
           \/ \* line 110: a row that cannot be bound or breaks the
              \* primary key
              /\ n < Len(data.rows)
              /\ in_transaction' = TRUE
              /\ txn_open' = began.txn_open
              /\ pending' = began.pending \o SubSeq(data.rows, 1, n)
              /\ c_pc' = "except"
              /\ hist' = Failed(hist, run, data.rows, n, db[run])
              /\ UNCHANGED <<faults, db>>
           \/ \* line 110: sqlite3.Error raised by the store after k rows
              /\ faults < MaxFaults
              /\ faults' = faults + 1
              /\ \E k \in 0..n :
                    /\ k < Len(data.rows)
                    /\ pending' = began.pending \o SubSeq(data.rows, 1, k)
                    /\ hist' = Failed(hist, run, data.rows, k, db[run])
              /\ in_transaction' = TRUE
              /\ txn_open' = began.txn_open
              /\ c_pc' = "except"
              /\ UNCHANGED db
           \/ \* line 112: sqlite3.Error raised by the commit: the
              \* transaction stays open (busy) or the store has rolled it
              \* back itself (full, I/O)
              /\ n = Len(data.rows)
              /\ faults < MaxFaults
              /\ faults' = faults + 1
              /\ in_transaction' = TRUE
              /\ \/ /\ txn_open' = written.txn_open
                    /\ pending' = written.pending
                 \/ /\ txn_open' = FALSE
                    /\ pending' = << >>
              /\ c_pc' = "except"
              /\ hist' = Failed(hist, run, data.rows, Len(data.rows), db[run])
              /\ UNCHANGED db
    /\ UNCHANGED <<config, mainv, queue, prod, data>>

\* mutant: after the ROLLBACK the consumer goes back to the queue
ConsumerExceptResumes ==
    /\ c_pc = "except"
    /\ txn_open' = Rollback(Conn(txn_open, pending)).txn_open
    /\ pending' = Rollback(Conn(txn_open, pending)).pending
    /\ in_transaction' = FALSE
    /\ c_pc' = "get"
    /\ UNCHANGED <<config, mainv, queue, prod, data, db, faults, hist>>

\* lines 115-118: ROLLBACK when in_transaction; without an open
\* transaction the ROLLBACK itself raises and the store is left as it is
ConsumerExcept ==
    /\ c_pc = "except"
    /\ IF in_transaction /\ txn_open
       THEN /\ txn_open' = Rollback(Conn(txn_open, pending)).txn_open
            /\ pending' = Rollback(Conn(txn_open, pending)).pending
       ELSE UNCHANGED <<txn_open, pending>>
    /\ c_pc' = "finally"
    /\ UNCHANGED <<config, mainv, queue, prod, data, in_transaction, db,
                   faults, hist>>

\* lines 119-122
ConsumerFinally ==
    /\ c_pc = "finally"
    /\ db' = IF in_transaction
             THEN [db EXCEPT ![run] = CommitStore(Conn(txn_open, pending), @)]
             ELSE db
    /\ txn_open' = Close(Conn(txn_open, pending)).txn_open
    /\ pending' = Close(Conn(txn_open, pending)).pending
    /\ c_pc' = "done"
    /\ UNCHANGED <<config, mainv, queue, prod, data, in_transaction, faults,
                   hist>>

Consumer ==
    \/ ConsumerGet
    \/ ConsumerWrite
    \/ ConsumerExcept
    \/ ConsumerFinally

(* -------------------------------- main -------------------------------- *)
\* lines 190-193: create_database; on sqlite3.Error it calls exit()
MainCreateDatabase ==
    /\ m_pc = "create_database"
    /\ \/ /\ m_pc' = "start"
          /\ UNCHANGED <<faults, hist>>
       \/ /\ faults < MaxFaults
          /\ faults' = faults + 1
          /\ m_pc' = "exited"
          /\ hist' = [hist EXCEPT !.failed = @ \cup {run}]
    /\ UNCHANGED <<config, run, queue, prod, cons, db>>

\* lines 196-203: a new queue and two new processes
MainStart ==
    /\ m_pc = "start"
    /\ queue' = << >>
    /\ p_pc' = "load"
    /\ c_pc' = "get"
    /\ in_transaction' = FALSE
    /\ txn_open' = FALSE
    /\ pending' = << >>
    /\ m_pc' = "join_producer"
    /\ parsed_ratings_list' = << >>
    /\ data_to_que' = << >>
    /\ db_updated_x_times' = 0
    /\ sim_id' = 1
    /\ scen' = 0
    /\ Y' = 0
    /\ obligor' = 0
    /\ rng' = 0
    /\ rho1' = 0
    /\ rho2' = 0
    /\ data' = None
    /\ hist' = [hist EXCEPT !.run = RunHist, !.started = @ \cup {run}]
    /\ UNCHANGED <<config, run, db, faults>>

\* line 205
MainJoinProducer ==
    /\ m_pc = "join_producer"
    /\ p_pc \in {"done", "crashed"}
    /\ m_pc' = "join_consumer"
    /\ UNCHANGED <<config, run, queue, prod, cons, db, faults, hist>>

\* lines 206, 189, 208 and 213-218: the next year, the next main() call
MainJoinConsumer ==
    /\ m_pc = "join_consumer"
    /\ c_pc = "done"
    /\ IF run < NumRuns
       THEN /\ run' = run + 1
            /\ m_pc' = "create_database"
            \* the two processes and their queue are gone
            /\ p_pc' = "idle"
            /\ c_pc' = "idle"
            /\ queue' = << >>
            /\ parsed_ratings_list' = << >>
            /\ data_to_que' = << >>
            /\ db_updated_x_times' = 0
            /\ sim_id' = 1
            /\ scen' = 0
            /\ Y' = 0
            /\ obligor' = 0
            /\ rng' = 0
            /\ rho1' = 0
            /\ rho2' = 0
            /\ data' = None
            /\ hist' = [hist EXCEPT !.run = RunHist]
       ELSE /\ m_pc' = "done"
            /\ UNCHANGED <<run, queue, prod, data, c_pc, hist>>
    /\ UNCHANGED <<config, in_transaction, txn_open, pending, db, faults>>

Main ==
    \/ MainCreateDatabase
    \/ MainStart
    \/ MainJoinProducer
    \/ MainJoinConsumer

Next == Producer \/ Consumer \/ Main

Spec == Init /\ [][Next]_vars

\* main, producer and consumer are three operating-system processes:
\* each one that can take a step eventually takes one
FairSpec ==
    /\ Init /\ [][Next]_vars
    /\ WF_vars(Producer) /\ WF_vars(Consumer) /\ WF_vars(Main)


(* ============================== properties ============================ *)
Store == db[run]

ProducerExited == p_pc \in {"done", "crashed"}

ConsumerExited == c_pc = "done"

StorageError == hist.run.err.seen

RECURSIVE Rows(_)
\* the rows of the batches a queue holds, oldest first
Rows(q) == IF q = << >> THEN << >> ELSE Head(q).rows \o Rows(Tail(q))

Increasing(rows) ==
    \A i, j \in DOMAIN rows : i < j => rows[i].S_ID < rows[j].S_ID

IsPrefix(a, b) == Len(a) <= Len(b) /\ SubSeq(b, 1, Len(a)) = a

\* C1: when producer and consumer of a run without storage error have
\* terminated, the S_ID values in the run's store are exactly 1..N, each
\* once.
C1_IdsContiguous ==
    (ProducerExited /\ ConsumerExited /\ ~StorageError)
        => /\ Ids(Store) = 1..ECONOMIC_SCENARIOS
           /\ Len(Store) = ECONOMIC_SCENARIOS

C1_Witness ==
    /\ ProducerExited /\ ConsumerExited /\ ~StorageError
    /\ ECONOMIC_SCENARIOS = MaxScen
    /\ BATCH_SIZE = 2
    /\ Ids(Store) = 1..MaxScen

\* C2: after a storage error, once data_consumer has exited, no row of the
\* failing batch is in the store and the store still holds, unchanged, every
\* row committed before the error.
C2_FailedBatchAbsent ==
    (ConsumerExited /\ StorageError)
        => /\ \A i \in DOMAIN hist.run.err.batch :
                 hist.run.err.batch[i].S_ID \notin Ids(Store)
           /\ IsPrefix(hist.run.err.store, Store)
           /\ Store = hist.run.err.store

\* the error struck after rows of the batch had been written, in a run
\* that had committed a batch before
C2_Witness ==
    /\ ConsumerExited /\ StorageError
    /\ hist.run.err.written > 0
    /\ in_transaction
    /\ Len(hist.run.err.store) > 0

\* C3: the queue never holds more than MAX_QUEUE_SIZE items, so the batches
\* of the queue plus the producer's partial batch never exceed capacity + 1.
C3_Backpressure ==
    /\ Len(queue) <= MAX_QUEUE_SIZE
    /\ Len(queue) + (IF Len(data_to_que) > 0 THEN 1 ELSE 0)
          <= MAX_QUEUE_SIZE + 1

\* the producer is blocked in put with a full queue and a full batch
C3_Witness ==
    /\ p_pc = "put_batch"
    /\ Len(queue) = MAX_QUEUE_SIZE
    /\ MAX_QUEUE_SIZE = MaxCap
    /\ \A i \in DOMAIN queue : ~queue[i].none
    /\ Len(data_to_que) > 0

\* C4: the rows of a run reach the store in strictly increasing S_ID order:
\* the store, then the batch the consumer holds, then the batches of the
\* queue in queue order form one strictly increasing sequence of ids.
C4_IncreasingOrder ==
    /\ \A r \in 1..NumRuns : Increasing(db[r])
    /\ Increasing(Store
                  \o (IF c_pc = "write" THEN data.rows ELSE pending)
                  \o Rows(queue))

\* a batch is committed and two more wait in the queue
C4_Witness ==
    /\ Len(Store) >= 1
    /\ Len(queue) >= 2
    /\ ~queue[1].none /\ ~queue[2].none

\* C5: once None is dequeued the consumer gets nothing more from the queue
\* and writes nothing more to the store; no transaction is open then, and
\* its one remaining step (the finally block) ends it.
C5_SentinelStops ==
    /\ [](hist.run.sentinel =>
            /\ c_pc \in {"finally", "done"}
            /\ ~in_transaction /\ ~txn_open /\ pending = << >>
            /\ (c_pc = "finally" => ENABLED ConsumerFinally))
    /\ [][(hist.run.sentinel /\ hist'.run.sentinel) =>
            /\ hist'.run.gets = hist.run.gets
            /\ db' = db
            /\ pending' = pending
            /\ (c_pc' # c_pc => c_pc' = "done")]_vars

C5_Witness ==
    /\ hist.run.sentinel
    /\ c_pc = "done"
    /\ Len(queue) = 0
    /\ Len(Store) = MaxScen


\* the threshold source holds every year of the sweep with every rate
ConfigComplete ==
    \A r \in 1..NumRuns :
        /\ HasYear(whole_rating_list, RunYear(r))
        /\ ~RaisesKeyError(whole_rating_list, RunYear(r))

\* C6: with a complete threshold source and no storage error every run of
\* the sweep completes under fair scheduling: main gets past both joins of
\* every run, every store holds all N rows, and no state before that
\* deadlocks.
C6_RunsComplete ==
    /\ ConfigComplete => <>(m_pc = "done" \/ hist.failed # {})
    /\ []((ConfigComplete /\ hist.failed = {} /\ m_pc # "done")
            => ENABLED Next)
    /\ []((ConfigComplete /\ hist.failed = {} /\ m_pc = "done")
            => /\ ProducerExited /\ ConsumerExited
               /\ hist.started = 1..NumRuns
               /\ \A r \in 1..NumRuns : Len(db[r]) = ECONOMIC_SCENARIOS)

C6_Witness ==
    /\ ConfigComplete
    /\ hist.failed = {}
    /\ m_pc = "done"
    /\ ECONOMIC_SCENARIOS = MaxScen
    /\ BATCH_SIZE = 1
    /\ MAX_QUEUE_SIZE = 1

\* C7: when the threshold source has no entry for the year of the run, the
\* producer draws nothing, builds no record and puts no batch.
C7_AbortsBeforeScenarios ==
    (p_pc # "idle" /\ ~HasYear(whole_rating_list, RunYear(run)))
        => /\ hist.run.draws = 0
           /\ data_to_que = << >>
           /\ \A i \in DOMAIN hist.run.puts : hist.run.puts[i] = -1

\* C8: after a run has failed, main starts the processes of no later run.
C8_SweepStopsAtFailedRun ==
    \A r \in hist.failed : \A q \in hist.started : q <= r

(* ---- the rows a run is to produce, from the seed and the parameters --- *)
\* the n-th draw of the seeded stream
StreamAt(n) ==
    standard_normal((np_random_seed(SEED) + (n - 1)) % Period)

\* the number of the draw that is Y of scenario s
FirstDraw(s) == (s - 1) * (PORTFOLIO_SIZE + 1) + 1

SystemicY(s) == StreamAt(FirstDraw(s))

\* the asset value of obligor j of scenario s in run r
AssetX(r, s, j) ==
    SystemicY(s) * np_sqrt(RunCorrelation(r))
        + StreamAt(FirstDraw(s) + j) * np_sqrt(100 - RunCorrelation(r))

Threshold(r, k) == norm_ppf(YearEntry(whole_rating_list, RunYear(r)).rates[k])

\* the obligors among the first n of scenario s below the threshold of k
DefaultsAmong(r, s, k, n) ==
    Cardinality({j \in 1..n : AssetX(r, s, j) < Threshold(r, k)})

Defaults(r, s, k) == DefaultsAmong(r, s, k, PORTFOLIO_SIZE)

\* equality of two ratios <<numerator, denominator>>
RatioEq(a, b) == a[1] * b[2] = b[1] * a[2]

\* C9: the rows a complete run without storage error has persisted are, in
\* order, the rows 1..N fixed by seed, scenario count, portfolio size and
\* thresholds alone, whatever BATCH_SIZE and MAX_QUEUE_SIZE are.
C9_BatchingInvisible ==
    (ProducerExited /\ ConsumerExited /\ ~StorageError)
        => /\ Len(Store) = ECONOMIC_SCENARIOS
           /\ \A s \in 1..Len(Store) :
                /\ Store[s].S_ID = s
                /\ Store[s].Y = SystemicY(s)
                /\ DOMAIN Store[s].L = Rates
                /\ \A k \in Rates :
                     RatioEq(Store[s].L[k],
                             <<Defaults(run, s, k), PORTFOLIO_SIZE>>)

\* a complete run that put batches of different sizes through a queue of
\* capacity 1
C9_Witness ==
    /\ ProducerExited /\ ConsumerExited /\ ~StorageError
    /\ MAX_QUEUE_SIZE = 1
    /\ hist.run.puts = <<1, 2, -1>>
    /\ Len(Store) = 3

\* the Scenario Records of the current run where they are built and where
\* they end: in between (queue, consumer) they travel unchanged
Records == Range(data_to_que) \cup Range(Store)

\* C10: in every Scenario Record the loss ratio of a rate is (obligors of
\* that scenario with X strictly below the rate's threshold) /
\* PORTFOLIO_SIZE; inside the obligor loop the counter holds the defaults
\* of this scenario's obligors so far, and between scenarios it is zero.
C10_LossRatio ==
    /\ \A rec \in Records : \A k \in DOMAIN rec.L :
          RatioEq(rec.L[k], <<Defaults(run, rec.S_ID, k), PORTFOLIO_SIZE>>)
    /\ \A k \in DOMAIN parsed_ratings_list :
          parsed_ratings_list[k].default_count =
             IF p_pc = "obligor"
             THEN DefaultsAmong(run, sim_id, k, obligor)
             ELSE 0

\* a persisted record with ratio 1/2 for a rate whose threshold one obligor
\* meets exactly and the other is below, after a scenario with defaults
C10_Witness ==
    \E i \in DOMAIN Store : \E k \in Rates :
        /\ Store[i].S_ID >= 2
        /\ DOMAIN Store[i].L = Rates
        /\ PORTFOLIO_SIZE = 2
        /\ Store[i].L[k] = <<1, 2>>
        /\ \E j \in 1..PORTFOLIO_SIZE :
              AssetX(run, Store[i].S_ID, j) = Threshold(run, k)
        /\ Defaults(run, Store[i].S_ID - 1, k) > 0

\* the Scenario Records of the current run wherever they are
AllRecords == Records \cup Range(Rows(queue)) \cup Range(data.rows)

\* C11: the default counter of every rate stays within 0..PORTFOLIO_SIZE
\* (it never exceeds the obligors tested so far), so every loss ratio of
\* every Scenario Record is k / PORTFOLIO_SIZE with 0 <= k <= PORTFOLIO_SIZE
\* and lies in [0, 1].
C11_CounterInRange ==
    /\ obligor \in 0..PORTFOLIO_SIZE
    /\ \A k \in DOMAIN parsed_ratings_list :
          /\ parsed_ratings_list[k].default_count >= 0
          /\ parsed_ratings_list[k].default_count
                <= (IF p_pc = "obligor" THEN obligor ELSE 0)
    /\ \A rec \in AllRecords : \A k \in DOMAIN rec.L :
          /\ rec.L[k][2] > 0
          /\ 0 <= rec.L[k][1] /\ rec.L[k][1] <= rec.L[k][2]
          /\ \E n \in 0..PORTFOLIO_SIZE :
                RatioEq(rec.L[k], <<n, PORTFOLIO_SIZE>>)

\* a persisted record in which every obligor defaulted for one rate and
\* none for another
C11_Witness ==
    \E i \in DOMAIN Store : \E a, b \in DOMAIN Store[i].L :
        /\ Store[i].L[a] = <<PORTFOLIO_SIZE, PORTFOLIO_SIZE>>
        /\ Store[i].L[b] = <<0, 1>>
        /\ Store[i].S_ID >= 2

\* the producer is past the seeding of line 147
Seeded == p_pc \in {"loop", "obligor", "put_batch", "tail", "put_none", "done"}

\* two rates of two runs that see the same correlation and threshold
SameParameters(r, a, q, b) ==
    /\ np_sqrt(RunCorrelation(r)) = np_sqrt(RunCorrelation(q))
    /\ np_sqrt(100 - RunCorrelation(r)) = np_sqrt(100 - RunCorrelation(q))
    /\ Threshold(r, a) = Threshold(q, b)

\* C12: the producer's position in the seeded stream depends on the
\* scenario and obligor number alone: scenario s takes draw
\* (s-1)*(PORTFOLIO_SIZE+1)+1 as Y and the next PORTFOLIO_SIZE draws as Z.
\* So every run stores the same Y for the same S_ID, and two rates with the
\* same correlation and threshold, in this run and an earlier one, have the
\* same ratios.
C12_StreamPosition ==
    /\ Seeded =>
          /\ hist.run.draws = (sim_id - 1) * (PORTFOLIO_SIZE + 1)
                 + (IF p_pc = "obligor" THEN 1 + obligor ELSE 0)
          /\ rng = (np_random_seed(SEED) + hist.run.draws) % Period
          /\ (p_pc = "obligor" =>
                 /\ Y = StreamAt(FirstDraw(sim_id))
                 /\ hist.run.draws = FirstDraw(sim_id) + obligor)
    /\ \A rec \in AllRecords : rec.Y = StreamAt(FirstDraw(rec.S_ID))
    /\ \A q \in 1..(run - 1) : \A i \in DOMAIN Store : \A j \in DOMAIN db[q] :
          Store[i].S_ID = db[q][j].S_ID =>
             /\ Store[i].Y = db[q][j].Y
             /\ \A a \in DOMAIN Store[i].L : \A b \in DOMAIN db[q][j].L :
                   SameParameters(run, a, q, b) => Store[i].L[a] = db[q][j].L[b]

\* two complete runs for different years whose stores differ, with a rate
\* of the one and a rate of the other that share threshold and defaults
C12_Witness ==
    /\ run >= 2
    /\ Len(db[1]) = MaxScen /\ Len(db[2]) = MaxScen
    /\ db[1] # db[2]
    /\ \E a, b \in Rates :
          /\ a # b
          /\ DOMAIN db[1][1].L = Rates /\ DOMAIN db[2][1].L = Rates
          /\ SameParameters(1, a, 2, b)
          /\ db[1][1].L[a] = <<1, PORTFOLIO_SIZE>>

RECURSIVE LoopPuts(_, _, _, _)
\* the queue.put calls lines 151-185 still make with `left` scenarios to
\* go, the next id `id`, `upd` batches put and `len` records in the batch
LoopPuts(left, id, upd, len) ==
    IF left = 0
    THEN (IF len > 0 THEN 1 ELSE 0) + 1
    ELSE IF BatchDue(id + 1, BATCH_SIZE, upd)
         THEN 1 + LoopPuts(left - 1, id + 1, upd + 1, 0)
         ELSE LoopPuts(left - 1, id + 1, upd, len + 1)

\* the items (batches and the sentinel) the producer has still to put
ItemsLeft ==
    CASE p_pc \in {"loop", "obligor"} ->
            LoopPuts(ECONOMIC_SCENARIOS - scen, sim_id, db_updated_x_times,
                     Len(data_to_que))
      [] p_pc = "put_batch" ->
            1 + LoopPuts(ECONOMIC_SCENARIOS - scen, sim_id,
                         db_updated_x_times + 1, 0)
      [] p_pc = "tail" -> (IF Len(data_to_que) > 0 THEN 1 ELSE 0) + 1
      [] p_pc = "put_none" -> 1
      [] OTHER -> 0

FreeSlots == MAX_QUEUE_SIZE - Len(queue)

\* the consumer has stopped after a storage error and the producer has
\* more to put than the queue has room for
Abandoned == ConsumerExited /\ StorageError /\ ItemsLeft > FreeSlots

\* ... and the producer is in queue.put with the queue full
Stalled ==
    /\ Abandoned
    /\ Len(queue) = MAX_QUEUE_SIZE
    /\ \/ p_pc \in {"put_batch", "put_none"}
       \/ p_pc = "tail" /\ Len(data_to_que) > 0

\* C13: when data_consumer has stopped after a storage error while the
\* producer has more items to put than the queue has free slots, the
\* producer ends blocked in queue.put on a full queue and stays there: the
\* producer never finishes, main never gets past joining it, and the
\* blocked state has no successor.
C13_ProducerStalls ==
    /\ [](Abandoned => (p_pc # "done" /\ m_pc = "join_producer"))
    /\ [][Abandoned => Abandoned']_vars
    /\ [](Stalled => ~ENABLED Next)
    /\ Abandoned ~> []Stalled

\* the producer blocked with a batch in hand and more to follow
C13_Witness ==
    /\ Stalled
    /\ p_pc = "put_batch"
    /\ ItemsLeft >= 2

\* C14: every batch the producer puts inside the scenario loop (every batch
\* but the trailing one) holds exactly BATCH_SIZE Scenario Records, the
\* first batch of the run included.
C14_BatchesFull ==
    p_pc = "put_batch" => Len(data_to_que) = BATCH_SIZE

\* C15: no batch put on the queue holds more than BATCH_SIZE Scenario
\* Records, and the producer's partial batch never does.
C15_BatchBounded ==
    /\ Len(data_to_que) <= BATCH_SIZE
    /\ \A i \in DOMAIN queue : Len(queue[i].rows) <= BATCH_SIZE
    /\ Len(data.rows) <= BATCH_SIZE
    /\ \A i \in DOMAIN hist.run.puts : hist.run.puts[i] <= BATCH_SIZE

\* a full batch about to be put, after an earlier batch
C15_Witness ==
    /\ p_pc = "put_batch"
    /\ BATCH_SIZE = MaxBatch
    /\ Len(data_to_que) = BATCH_SIZE
    /\ db_updated_x_times >= 1

\* C16: the producer puts no empty batch, puts None exactly once, as the
\* last item it puts and as its last act; with zero scenarios None is the
\* only item put.
C16_SentinelLast ==
    /\ \A i \in DOMAIN hist.run.puts :
          /\ hist.run.puts[i] # 0
          /\ hist.run.puts[i] = -1 => i = Len(hist.run.puts)
    /\ \A i \in DOMAIN queue : queue[i].none => i = Len(queue)
    /\ p_pc = "done" <=>
          (hist.run.puts # << >> /\ hist.run.puts[Len(hist.run.puts)] = -1)
    /\ (p_pc = "done" /\ ECONOMIC_SCENARIOS = 0) => hist.run.puts = <<-1>>

\* a producer that has finished after a batch, a trailing batch and None
C16_Witness ==
    /\ p_pc = "done"
    /\ BATCH_SIZE = 2
    /\ hist.run.puts = <<1, 1, -1>>
    /\ hist.failed = {}

\* C17: after a storage error data_consumer only runs its except and
\* finally blocks and ends: the transaction it had opened is rolled back,
\* it calls queue.get no more and inserts no more, and the batches left in
\* the queue never reach the store.
C17_ErrorStops ==
    /\ [](StorageError =>
            /\ c_pc \in {"except", "finally", "done"}
            /\ (c_pc = "except" => ENABLED ConsumerExcept)
            /\ (c_pc = "finally" => ENABLED ConsumerFinally)
            /\ (c_pc \in {"finally", "done"} =>
                   ~txn_open /\ pending = << >>)
            /\ Store = hist.run.err.store
            /\ Ids(Rows(queue)) \cap Ids(Store) = {})
    /\ [][(hist.run.err.seen /\ hist'.run.err.seen) =>
            /\ hist'.run.gets = hist.run.gets
            /\ db' = db
            /\ IsPrefix(queue, queue')
            /\ (c_pc' # c_pc =>
                   <<c_pc, c_pc'>> \in {<<"except", "finally">>,
                                       <<"finally", "done">>})]_vars

\* the consumer has ended after an error that struck in the middle of a
\* batch, with a committed batch in the store and a batch left in the queue
C17_Witness ==
    /\ StorageError /\ ConsumerExited
    /\ hist.run.err.written > 0
    /\ Len(Store) >= 1
    /\ Len(queue) >= 1
    /\ ~queue[1].none

\* the 'pct' and 'ppf' entries of a threshold table
Thresholds(prl) == [k \in DOMAIN prl |-> <<prl[k].pct, prl[k].ppf>>]

\* C18: from the seeding to the end of the producer the thresholds are
\* those loaded for the year of the run, and no step changes them, rho1,
\* rho2 or the configuration; no step of the producer changes the store or
\* the consumer's connection, and no step of the consumer changes a
\* variable of the producer.
C18_Frame ==
    /\ [](Seeded =>
            Thresholds(parsed_ratings_list)
               = Thresholds(LoadThresholds(whole_rating_list, RunYear(run))))
    /\ [][(Seeded /\ Seeded') =>
            /\ Thresholds(parsed_ratings_list') = Thresholds(parsed_ratings_list)
            /\ rho1' = rho1 /\ rho2' = rho2
            /\ config' = config]_vars
    /\ [][Producer => (db' = db /\ cons' = cons)]_vars
    /\ [][Consumer => prod' = prod]_vars

\* a producer that has finished a run of MaxScen scenarios with a threshold
\* other than zero, all rows stored, some of them with defaults
C18_Witness ==
    /\ p_pc = "done" /\ c_pc = "done"
    /\ Len(Store) = MaxScen
    /\ \E k \in DOMAIN parsed_ratings_list : parsed_ratings_list[k].ppf # 0
    /\ \E i \in DOMAIN Store : \E k \in DOMAIN Store[i].L :
          Store[i].L[k] # <<0, 1>>

\* C19: a producer process that has terminated has put None on the queue.
C19_SentinelOnExit ==
    ProducerExited =>
        \E i \in DOMAIN hist.run.puts : hist.run.puts[i] = -1

\* C20: one X is tested against every rate, so the counters are ordered
\* like the thresholds at every point of the obligor loop, and so are the
\* loss ratios of every Scenario Record.
C20_OrderedLikeThresholds ==
    /\ \A a, b \in DOMAIN parsed_ratings_list :
          parsed_ratings_list[a].ppf <= parsed_ratings_list[b].ppf =>
             parsed_ratings_list[a].default_count
                <= parsed_ratings_list[b].default_count
    /\ \A rec \in AllRecords : \A a, b \in DOMAIN rec.L :
          Threshold(run, a) <= Threshold(run, b) =>
             rec.L[a][1] * rec.L[b][2] <= rec.L[b][1] * rec.L[a][2]

\* a stored record whose rate with the lower threshold has one default
\* and the rate with the higher threshold two
C20_Witness ==
    \E i \in DOMAIN Store : \E a, b \in DOMAIN Store[i].L :
        /\ Threshold(run, a) < Threshold(run, b)
        /\ Store[i].L[a] = <<1, PORTFOLIO_SIZE>>
        /\ Store[i].L[b] = <<2, PORTFOLIO_SIZE>>

====
